---- MODULE Spec2Model ----
(***************************************************************************)
(* example/run_ppo_vector_multi.py: the distributed PPO training driver.   *)
(* WorldSize processes run the same script, one per local_rank, over one   *)
(* shared --log directory.  Every process is a straight-line program; its  *)
(* position is pc[r].  A raised exception ends the process (aborted[r]).   *)
(***************************************************************************)
EXTENDS Integers, Sequences, FiniteSets, TLC

\* ---------------------------------------------------------------- bounds
WorldSize == 2
MaxEpisodes == 2
MaxNumEpi == 2

\* ------------------------------------------------------ program constants
DefaultSeed == 256
SeedOffset == 23
InitMaxRew == -1000000
InitKlBeta == 1

Ranks == 0 .. (WorldSize - 1)
NoFile == [obj |-> "none", ver |-> -1]
NoArgs == [seed |-> -1]
NoCall == [rule |-> "none", beta_in |-> 0, beta_out |-> 0]

MaxFiles == <<"pol_max", "vf_max", "optim_pol_max", "optim_vf_max">>
LastFiles == <<"pol_last", "vf_last", "optim_pol_last", "optim_vf_last">>
CkptFiles == {MaxFiles[i] : i \in 1 .. 4} \cup {LastFiles[i] : i \in 1 .. 4}
Objs == <<"pol", "vf", "optim_pol", "optim_vf">>

\* ------------------------------------------------------ rollout paths
\* A path is a fixed-length vector rollout: per-step rewards and done flags.
PathA == [rews |-> <<2, 2, 2>>, dones |-> <<1, 0, 1>>]
PathB == [rews |-> <<2, 2, 5>>, dones |-> <<1, 1, 1>>]
PathFloor == [rews |-> <<InitMaxRew, 0, 0>>, dones |-> <<1, 0, 1>>]
PathNoDone == [rews |-> <<1, 1, 1>>, dones |-> <<0, 0, 0>>]
PathOneDone == [rews |-> <<1, 1, 1>>, dones |-> <<0, 1, 0>>]

\* What sampler.sample(pol) may return.
PathsChoices ==
    { <<PathA, PathA>>, <<PathB, PathB>>, <<PathFloor, PathFloor>>,
      <<PathA, PathNoDone>>, <<PathOneDone, PathB>> }

VARIABLES
    max_episodes,   \* args.max_episodes
    ppo_type,       \* args.ppo_type
    pc,             \* pc[r]: the statement rank r executes next
    aborted,        \* aborted[r]: an exception ended rank r at pc[r]
    logDir,         \* args.log exists
    modelsDir,      \* args.log/models exists
    argsJson,       \* the seed recorded in args.log/args.json
    argsWrites,     \* argsWrites[r]: times rank r opened args.json for writing
    seed,           \* seed[r]: args.seed of rank r
    pgInit,         \* pgInit[r]: dist.init_process_group has returned
    rng,            \* rng[r]: seeds given to numpy, torch, env and sampler
    built,          \* built[r]: env, pol, vf, sampler and optimizers exist
    total_epi, total_step, max_rew, kl_beta,
    iter,           \* iter[r]: loop iterations rank r has entered
    paths,          \* paths[r]: result of sampler.sample
    num_epi,        \* num_epi[r]: data.num_epi
    version,        \* version[r]: updates applied to pol, vf and the optimizers
    mean_rew,       \* mean_rew[r]
    lastCall,       \* lastCall[r]: the latest ppo_*.train call and its result
    files,          \* files[f]: contents of args.log/models/f.pkl
    ckptWriters,    \* ranks that have written a checkpoint file
    progress        \* rows of progress.csv

vars == <<max_episodes, ppo_type, pc, aborted, logDir, modelsDir, argsJson,
          argsWrites, seed, pgInit, rng, built, total_epi, total_step, max_rew,
          kl_beta, iter, paths, num_epi, version, mean_rew, lastCall, files,
          ckptWriters, progress>>

argvars == <<max_episodes, ppo_type>>
fsvars == <<logDir, modelsDir, argsJson, argsWrites>>
setupvars == <<seed, pgInit, rng, built>>
ckptvars == <<files, ckptWriters>>
loopvars == <<total_epi, total_step, max_rew, kl_beta, iter, paths, num_epi,
              version, mean_rew, lastCall>>

\* ------------------------------------------------------ pure helpers
RECURSIVE SumRange(_, _, _)
\* sum(s[a:b]) with Python's half-open, 0-based slice bounds
SumRange(s, a, b) == IF a >= b THEN 0 ELSE s[a + 1] + SumRange(s, a + 1, b)

RECURSIVE SumSeq(_)
SumSeq(s) == IF s = <<>> THEN 0 ELSE Head(s) + SumSeq(Tail(s))

\* inds = np.arange(len(mask))[mask == 1], 0-based positions of the done flags
DoneInds(path) ==
    LET RECURSIVE Collect(_)
        Collect(i) == IF i >= Len(path.dones) THEN <<>>
                      ELSE (IF path.dones[i + 1] = 1 THEN <<i>> ELSE <<>>)
                           \o Collect(i + 1)
    IN Collect(0)

\* inds[0] raises IndexError on no done flag; the division raises on exactly one
PathFails(path) == Len(DoneInds(path)) < 2

\* sum(path['rews'][inds[0]:inds[-1]]) / num_epi (the chosen paths divide exactly)
PathReward(path) ==
    LET inds == DoneInds(path)
    IN SumRange(path.rews, inds[1], inds[Len(inds)]) \div (Len(inds) - 1)

\* np.mean(rewards) (the chosen path lists average exactly)
MeanReward(ps) ==
    SumSeq([i \in 1 .. Len(ps) |-> PathReward(ps[i])]) \div Len(ps)

\* step = len(paths) * len(paths[0]['rews']) * args.world_size
StepOf(ps) == Len(ps) * Len(ps[1].rews) * WorldSize

DerivedSeed(s, r) == s * (r + SeedOffset)

Init ==
    /\ max_episodes \in -1 .. MaxEpisodes
    /\ ppo_type \in {"clip", "kl"}
    /\ pc = [r \in Ranks |-> "check_log"]
    /\ aborted = [r \in Ranks |-> FALSE]
    /\ logDir \in BOOLEAN
    /\ modelsDir = FALSE
    /\ argsJson = NoArgs
    /\ argsWrites = [r \in Ranks |-> 0]
    /\ seed = [r \in Ranks |-> DefaultSeed]
    /\ pgInit = [r \in Ranks |-> FALSE]
    /\ rng = [r \in Ranks |-> [np |-> -1, torch |-> -1, env |-> -1, sampler |-> -1]]
    /\ built = [r \in Ranks |-> FALSE]
    /\ total_epi = [r \in Ranks |-> 0]
    /\ total_step = [r \in Ranks |-> 0]
    /\ max_rew = [r \in Ranks |-> InitMaxRew]
    /\ kl_beta = [r \in Ranks |-> InitKlBeta]
    /\ iter = [r \in Ranks |-> 0]
    /\ paths = [r \in Ranks |-> <<>>]
    /\ num_epi = [r \in Ranks |-> 0]
    /\ version = [r \in Ranks |-> 0]
    /\ mean_rew = [r \in Ranks |-> 0]
    /\ lastCall = [r \in Ranks |-> NoCall]
    /\ files = [f \in CkptFiles |-> NoFile]
    /\ ckptWriters = {}
    /\ progress = <<>>

Running(r) == ~aborted[r]

Goto(r, l) == pc' = [pc EXCEPT ![r] = l]

\* ------------------------------------------------------ setup, lines 72-118
\* if not os.path.exists(args.log):
CheckLog(r) ==
    /\ Running(r) /\ pc[r] = "check_log"
    /\ Goto(r, IF logDir THEN "write_args" ELSE "mkdir_log")
    /\ UNCHANGED <<argvars, aborted, fsvars, setupvars, loopvars, ckptvars, progress>>

\* os.mkdir(args.log): FileExistsError when the directory was made meanwhile
MkdirLog(r) ==
    /\ Running(r) /\ pc[r] = "mkdir_log"
    /\ IF logDir
       THEN /\ aborted' = [aborted EXCEPT ![r] = TRUE]
            /\ UNCHANGED <<pc, logDir>>
       ELSE /\ logDir' = TRUE
            /\ Goto(r, "write_args")
            /\ UNCHANGED aborted
    /\ UNCHANGED <<argvars, modelsDir, argsJson, argsWrites, setupvars, loopvars,
                   ckptvars, progress>>

\* args.json written after the seed was rescaled
WriteArgsDerived(r) ==
    /\ Running(r) /\ pc[r] = "write_args"
    /\ argsJson' = [seed |-> DerivedSeed(seed[r], r)]
    /\ argsWrites' = [argsWrites EXCEPT ![r] = @ + 1]
    /\ Goto(r, "check_models")
    /\ UNCHANGED <<argvars, aborted, logDir, modelsDir, setupvars, loopvars,
                   ckptvars, progress>>

\* with open(args.log/args.json, 'w') as f: json.dump(vars(args), f)
WriteArgs(r) ==
    /\ Running(r) /\ pc[r] = "write_args"
    /\ argsJson' = [seed |-> seed[r]]
    /\ argsWrites' = [argsWrites EXCEPT ![r] = @ + 1]
    /\ Goto(r, "check_models")
    /\ UNCHANGED <<argvars, aborted, logDir, modelsDir, setupvars, loopvars,
                   ckptvars, progress>>

\* if not os.path.exists(args.log/models):
CheckModels(r) ==
    /\ Running(r) /\ pc[r] = "check_models"
    /\ Goto(r, IF modelsDir THEN "rescale_seed" ELSE "mkdir_models")
    /\ UNCHANGED <<argvars, aborted, fsvars, setupvars, loopvars, ckptvars, progress>>

\* os.mkdir(args.log/models)
MkdirModels(r) ==
    /\ Running(r) /\ pc[r] = "mkdir_models"
    /\ IF modelsDir
       THEN /\ aborted' = [aborted EXCEPT ![r] = TRUE]
            /\ UNCHANGED <<pc, modelsDir>>
       ELSE /\ modelsDir' = TRUE
            /\ Goto(r, "rescale_seed")
            /\ UNCHANGED aborted
    /\ UNCHANGED <<argvars, logDir, argsJson, argsWrites, setupvars, loopvars,
                   ckptvars, progress>>

\* args.seed = args.seed * (args.local_rank + 23)
RescaleSeed(r) ==
    /\ Running(r) /\ pc[r] = "rescale_seed"
    /\ seed' = [seed EXCEPT ![r] = DerivedSeed(@, r)]
    /\ Goto(r, "init_pg")
    /\ UNCHANGED <<argvars, aborted, fsvars, pgInit, rng, built, loopvars, ckptvars,
                   progress>>

\* dist.init_process_group(backend='nccl', world_size=..., rank=...)
InitProcessGroup(r) ==
    /\ Running(r) /\ pc[r] = "init_pg"
    /\ pgInit' = [pgInit EXCEPT ![r] = TRUE]
    /\ Goto(r, "build")
    /\ UNCHANGED <<argvars, aborted, fsvars, seed, rng, built, loopvars, ckptvars,
                   progress>>

\* np.random.seed ... kl_beta = args.init_kl_beta
Build(r) ==
    /\ Running(r) /\ pc[r] = "build"
    /\ rng' = [rng EXCEPT ![r] = [np |-> seed[r], torch |-> seed[r],
                                  env |-> seed[r], sampler |-> seed[r]]]
    /\ built' = [built EXCEPT ![r] = TRUE]
    /\ total_epi' = [total_epi EXCEPT ![r] = 0]
    /\ total_step' = [total_step EXCEPT ![r] = 0]
    /\ max_rew' = [max_rew EXCEPT ![r] = InitMaxRew]
    /\ kl_beta' = [kl_beta EXCEPT ![r] = InitKlBeta]
    /\ Goto(r, "loop_test")
    /\ UNCHANGED <<argvars, aborted, fsvars, seed, pgInit, iter, paths, num_epi,
                   version, mean_rew, lastCall, ckptvars, progress>>

Setup(r) ==
    \/ CheckLog(r)
    \/ MkdirLog(r)
    \/ WriteArgs(r)
    \/ CheckModels(r)
    \/ MkdirModels(r)
    \/ RescaleSeed(r)
    \/ InitProcessGroup(r)
    \/ Build(r)

\* ------------------------------------------------------ training loop, 119-160
SetupPcs == {"check_log", "mkdir_log", "write_args", "check_models",
             "mkdir_models", "rescale_seed", "init_pg", "build"}
SavePcs == {"save_max", "save_last"}
BodyPcs == {"sample", "preprocess", "update", "rewards", "log", "ckpt_test"}
               \cup SavePcs

\* The collective steps of the distributed optimizer rank r has taken part in:
\* one per ppo_*.train call that it entered and that did not raise.
Joined(r) ==
    IF pc[r] \in SetupPcs THEN 0
    ELSE IF pc[r] \in {"sample", "preprocess"} THEN iter[r] - 1
    ELSE IF pc[r] = "update" /\ aborted[r] THEN iter[r] - 1
    ELSE iter[r]

\* DistributedAdamW.step averages gradients over all ranks: the update of
\* iteration k returns on rank r only once every rank has entered update k.
CollectiveReady(r) == \A s \in Ranks : Joined(s) >= iter[r]

\* Rank r waits in the collective for a rank that will never enter it.
BlockedInCollective(r) ==
    /\ Running(r) /\ pc[r] = "update"
    /\ \E s \in Ranks : (aborted[s] \/ pc[s] = "done") /\ Joined(s) < iter[r]

\* the loop test with >= for >
LoopCondInclusive(r) == max_episodes >= total_epi[r]

\* args.max_episodes > total_epi
LoopCond(r) == max_episodes > total_epi[r]

\* while args.max_episodes > total_epi:
LoopTest(r) ==
    /\ Running(r) /\ pc[r] = "loop_test"
    /\ IF LoopCond(r)
       THEN /\ iter' = [iter EXCEPT ![r] = @ + 1]
            /\ Goto(r, "sample")
       ELSE /\ Goto(r, "done")
            /\ UNCHANGED iter
    /\ UNCHANGED <<argvars, aborted, fsvars, setupvars, total_epi, total_step,
                   max_rew, kl_beta, paths, num_epi, version, mean_rew, lastCall,
                   ckptvars, progress>>

\* paths = sampler.sample(pol)
Sample(r) ==
    /\ Running(r) /\ pc[r] = "sample"
    /\ \E ps \in PathsChoices : paths' = [paths EXCEPT ![r] = ps]
    /\ Goto(r, "preprocess")
    /\ UNCHANGED <<argvars, aborted, fsvars, setupvars, total_epi, total_step,
                   max_rew, kl_beta, iter, num_epi, version, mean_rew, lastCall,
                   ckptvars, progress>>

\* data = GAEVectorData(paths); data.preprocess(vf, gamma, lam, centerize=True)
Preprocess(r) ==
    /\ Running(r) /\ pc[r] = "preprocess"
    /\ \E n \in 1 .. MaxNumEpi : num_epi' = [num_epi EXCEPT ![r] = n]
    /\ Goto(r, "update")
    /\ UNCHANGED <<argvars, aborted, fsvars, setupvars, total_epi, total_step,
                   max_rew, kl_beta, iter, paths, version, mean_rew, lastCall,
                   ckptvars, progress>>

\* result_dict['new_kl_beta'] of ppo_kl.train called with kl_beta = b
NewKlBetas(b) == {b, 2 * b}

\* if args.ppo_type == 'clip':
UsesClip(r) == ppo_type = "clip"

\* the returned coefficient is dropped
KeepKlBeta(r, new_kl_beta) == kl_beta[r]

\* kl_beta = result_dict['new_kl_beta']
AssignKlBeta(r, new_kl_beta) == new_kl_beta

\* result_dict = ppo_clip.train(...) or ppo_kl.train(..., kl_beta, ...)
Update(r) ==
    /\ Running(r) /\ pc[r] = "update"
    /\ CollectiveReady(r)
    /\ version' = [version EXCEPT ![r] = @ + 1]
    /\ IF UsesClip(r)
       THEN /\ lastCall' = [lastCall EXCEPT ![r] =
                               [rule |-> "clip", beta_in |-> 0, beta_out |-> 0]]
            /\ UNCHANGED kl_beta
       ELSE \E nb \in NewKlBetas(kl_beta[r]) :
            /\ lastCall' = [lastCall EXCEPT ![r] =
                               [rule |-> "kl", beta_in |-> kl_beta[r], beta_out |-> nb]]
            /\ kl_beta' = [kl_beta EXCEPT ![r] = AssignKlBeta(r, nb)]
    /\ Goto(r, "rewards")
    /\ UNCHANGED <<argvars, aborted, fsvars, setupvars, total_epi, total_step,
                   max_rew, iter, paths, num_epi, mean_rew, ckptvars, progress>>

\* sampler.sample, GAEVectorData/preprocess or ppo_*.train raises: nothing
\* catches it, the process ends
StepFails(r) ==
    /\ Running(r) /\ pc[r] \in {"sample", "preprocess", "update"}
    /\ aborted' = [aborted EXCEPT ![r] = TRUE]
    /\ UNCHANGED <<argvars, pc, fsvars, setupvars, loopvars, ckptvars, progress>>

\* total_epi += data.num_epi
AddEpisodes(r) == total_epi[r] + num_epi[r]

\* the reward averaging with its exception swallowed
RewardsSwallowsError(r) ==
    /\ Running(r) /\ pc[r] = "rewards"
    /\ total_epi' = [total_epi EXCEPT ![r] = AddEpisodes(r)]
    /\ total_step' = [total_step EXCEPT ![r] = @ + StepOf(paths[r])]
    /\ mean_rew' = [mean_rew EXCEPT ![r] =
                       IF \E i \in 1 .. Len(paths[r]) : PathFails(paths[r][i])
                       THEN 0 ELSE MeanReward(paths[r])]
    /\ Goto(r, "log")
    /\ UNCHANGED <<argvars, aborted, fsvars, setupvars, max_rew, kl_beta, iter,
                   paths, num_epi, version, lastCall, ckptvars, progress>>

\* total_epi += data.num_epi ... mean_rew = np.mean(rewards)
Rewards(r) ==
    /\ Running(r) /\ pc[r] = "rewards"
    /\ total_epi' = [total_epi EXCEPT ![r] = AddEpisodes(r)]
    /\ total_step' = [total_step EXCEPT ![r] = @ + StepOf(paths[r])]
    /\ IF \E i \in 1 .. Len(paths[r]) : PathFails(paths[r][i])
       THEN /\ aborted' = [aborted EXCEPT ![r] = TRUE]
            /\ UNCHANGED <<pc, mean_rew>>
       ELSE /\ mean_rew' = [mean_rew EXCEPT ![r] = MeanReward(paths[r])]
            /\ Goto(r, "log")
            /\ UNCHANGED aborted
    /\ UNCHANGED <<argvars, fsvars, setupvars, max_rew, kl_beta, iter, paths,
                   num_epi, version, lastCall, ckptvars, progress>>

\* the rank guard left out
AnyRank(r) == TRUE

\* if args.local_rank == 0:
IsRankZero(r) == r = 0

\* the log step followed directly by the next loop test
LogSkipsCheckpoint(r) ==
    /\ Running(r) /\ pc[r] = "log"
    /\ IF r = 0
       THEN progress' = Append(progress,
                [rank |-> r, total_epi |-> total_epi[r], step |-> StepOf(paths[r]),
                 total_step |-> total_step[r], mean_rew |-> mean_rew[r]])
       ELSE UNCHANGED progress
    /\ Goto(r, "loop_test")
    /\ UNCHANGED <<argvars, aborted, fsvars, setupvars, loopvars, ckptvars>>

\* logger.record_results(args.log, result_dict, score_file, total_epi, step, ...)
Log(r) ==
    /\ Running(r) /\ pc[r] = "log"
    /\ IF IsRankZero(r)
       THEN progress' = Append(progress,
                [rank |-> r, total_epi |-> total_epi[r], step |-> StepOf(paths[r]),
                 total_step |-> total_step[r], mean_rew |-> mean_rew[r]])
       ELSE UNCHANGED progress
    /\ Goto(r, "ckpt_test")
    /\ UNCHANGED <<argvars, aborted, fsvars, setupvars, loopvars, ckptvars>>

\* the comparison with >= for >
NewBestOrEqual(r) == mean_rew[r] >= max_rew[r]

\* if mean_rew > max_rew:
NewBest(r) == mean_rew[r] > max_rew[r]

\* the end of the loop body: paths and mean_rew are dead until reassigned
EndIteration(r) ==
    /\ paths' = [paths EXCEPT ![r] = <<>>]
    /\ mean_rew' = [mean_rew EXCEPT ![r] = 0]
    /\ Goto(r, "loop_test")

\* the *_last saves placed inside the best-reward branch
CkptTestLastOnlyWhenBest(r) ==
    /\ Running(r) /\ pc[r] = "ckpt_test"
    /\ IF IsRankZero(r) /\ NewBest(r)
       THEN /\ Goto(r, "save_max")
            /\ UNCHANGED <<paths, mean_rew>>
       ELSE EndIteration(r)
    /\ UNCHANGED <<argvars, aborted, fsvars, setupvars, total_epi, total_step,
                   max_rew, kl_beta, iter, num_epi, version, lastCall, ckptvars,
                   progress>>

\* if args.local_rank == 0: if mean_rew > max_rew:
CkptTest(r) ==
    /\ Running(r) /\ pc[r] = "ckpt_test"
    /\ IF IsRankZero(r)
       THEN /\ Goto(r, IF NewBest(r) THEN "save_max" ELSE "save_last")
            /\ UNCHANGED <<paths, mean_rew>>
       ELSE EndIteration(r)
    /\ UNCHANGED <<argvars, aborted, fsvars, setupvars, total_epi, total_step,
                   max_rew, kl_beta, iter, num_epi, version, lastCall, ckptvars,
                   progress>>

\* pol.state_dict(), vf.state_dict(), optim_pol.state_dict(), optim_vf.state_dict()
StateDict(r, obj) == [obj |-> obj, ver |-> version[r]]

\* the four torch.save(..., '*_max.pkl') in source order
SaveAll(r, names) ==
    /\ files' = [f \in CkptFiles |->
                    IF \E i \in 1 .. 4 : names[i] = f
                    THEN StateDict(r, Objs[CHOOSE i \in 1 .. 4 : names[i] = f])
                    ELSE files[f]]
    /\ ckptWriters' = ckptWriters \cup {r}

\* torch.save(..., 'pol_max.pkl') ... max_rew = mean_rew
SaveMax(r) ==
    /\ Running(r) /\ pc[r] = "save_max"
    /\ SaveAll(r, MaxFiles)
    /\ max_rew' = [max_rew EXCEPT ![r] = mean_rew[r]]
    /\ Goto(r, "save_last")
    /\ UNCHANGED <<argvars, aborted, fsvars, setupvars, total_epi, total_step,
                   kl_beta, iter, paths, num_epi, version, mean_rew, lastCall,
                   progress>>

\* torch.save(..., 'pol_last.pkl') ... del data
SaveLast(r) ==
    /\ Running(r) /\ pc[r] = "save_last"
    /\ SaveAll(r, LastFiles)
    /\ EndIteration(r)
    /\ UNCHANGED <<argvars, aborted, fsvars, setupvars, total_epi, total_step,
                   max_rew, kl_beta, iter, num_epi, version, lastCall, progress>>

Loop(r) ==
    \/ LoopTest(r)
    \/ Sample(r)
    \/ Preprocess(r)
    \/ Update(r)
    \/ Rewards(r)
    \/ Log(r)
    \/ CkptTest(r)
    \/ SaveMax(r)
    \/ SaveLast(r)

\* the statements of rank r that do not raise
Proceed(r) == Setup(r) \/ Loop(r)

Next == \E r \in Ranks : Proceed(r) \/ StepFails(r)

Spec == Init /\ [][Next]_vars

\* some rank executes a statement that does not raise
Progress == \E r \in Ranks : Proceed(r)

\* The processes are scheduled: while some rank can execute its next statement,
\* a statement is eventually executed.
LiveSpec == Spec /\ WF_vars(Progress)

\* ------------------------------------------------------ shared vocabulary
Boundary(r) == pc[r] \in {"loop_test", "done"}

SetMax(S) == CHOOSE x \in S : \A y \in S : y <= x

Rows == 1 .. Len(progress)

\* the largest of -1e6 and the mean rewards of the logged iterations
RunMax == SetMax({InitMaxRew} \cup {progress[k].mean_rew : k \in Rows})

\* the earliest logged iteration whose mean reward is RunMax
BestIter ==
    CHOOSE k \in Rows :
        /\ progress[k].mean_rew = RunMax
        /\ \A j \in 1 .. (k - 1) : progress[j].mean_rew < RunMax

FilesHold(names, k) ==
    \A i \in 1 .. 4 : files[names[i]] = [obj |-> Objs[i], ver |-> k]

FilesAbsent(names) == \A i \in 1 .. 4 : files[names[i]] = NoFile

\* the *_max files are those of the best logged iteration, or absent
BestFilesOk ==
    IF RunMax > InitMaxRew THEN FilesHold(MaxFiles, BestIter)
    ELSE FilesAbsent(MaxFiles)

\* the *_last files are those of iteration k, or absent when k = 0
LastFilesOk(k) == IF k = 0 THEN FilesAbsent(LastFiles) ELSE FilesHold(LastFiles, k)

LastVer == IF files[LastFiles[4]] = NoFile THEN 0 ELSE files[LastFiles[4]].ver

PcSteps ==
    { <<"check_log", "mkdir_log">>, <<"check_log", "write_args">>,
      <<"mkdir_log", "write_args">>, <<"write_args", "check_models">>,
      <<"check_models", "mkdir_models">>, <<"check_models", "rescale_seed">>,
      <<"mkdir_models", "rescale_seed">>, <<"rescale_seed", "init_pg">>,
      <<"init_pg", "build">>, <<"build", "loop_test">>,
      <<"loop_test", "sample">>, <<"sample", "preprocess">>,
      <<"preprocess", "update">>, <<"update", "rewards">>, <<"rewards", "log">>,
      <<"log", "ckpt_test">>, <<"ckpt_test", "save_max">>,
      <<"ckpt_test", "save_last">>, <<"ckpt_test", "loop_test">>,
      <<"save_max", "save_last">>,
      <<"save_last", "loop_test">>, <<"loop_test", "done">> }

\* ------------------------------------------------------ C1
\* The effects of rank 0's steps are nested in the fixed order: the k-th
\* checkpoint follows the k-th progress row, which follows the k-th update,
\* which follows the k-th entry of the loop, and iteration k+1 is entered only
\* after the k-th checkpoint.
OrderInv ==
    /\ \A r \in Ranks : built[r] => pgInit[r]
    /\ \A r \in Ranks : pc[r] \in {"preprocess", "update"} => paths[r] # <<>>
    /\ LastVer <= Len(progress)
    /\ Len(progress) <= version[0]
    /\ version[0] <= iter[0]
    /\ iter[0] <= LastVer + 1
    /\ pc[0] \in {"loop_test", "done", "sample"} \cup SetupPcs =>
           LastVer = version[0]

OrderStep ==
    \A r \in Ranks :
        /\ pc'[r] # pc[r] => <<pc[r], pc'[r]>> \in PcSteps
        /\ r = 0 /\ pc[r] = "ckpt_test" => pc'[r] # "loop_test"

\* C1: the process group is initialized before anything is built, and every
\* iteration of rank 0 runs sample, preprocess, update, log, checkpoint in that
\* order, each exactly once, before the next iteration starts.
FixedOrder == []OrderInv /\ [][OrderStep]_vars

FixedOrderWitness ==
    pc[0] = "done" /\ iter[0] = 2 /\ Len(progress) = 2 /\ LastVer = 2

\* ------------------------------------------------------ C2
BestInv ==
    Boundary(0) => /\ max_rew[0] = RunMax
                   /\ BestFilesOk

BestStep ==
    /\ max_rew'[0] >= max_rew[0]
    /\ (\E i \in 1 .. 4 : files'[MaxFiles[i]] # files[MaxFiles[i]]) =>
           /\ mean_rew[0] > max_rew[0]
           /\ max_rew'[0] = mean_rew[0]

\* C2: between iterations of rank 0, max_rew is the largest of -1e6 and the
\* mean rewards logged so far, the four *_max files hold the states of the
\* earliest iteration that reached it (none is written while no mean reward
\* exceeds -1e6), they are rewritten only on a strictly greater mean reward,
\* and max_rew never decreases.
BestCheckpoint == []BestInv /\ [][BestStep]_vars

BestCheckpointWitness ==
    /\ Boundary(0) /\ Len(progress) = 2
    /\ progress[1].mean_rew = progress[2].mean_rew
    /\ progress[1].mean_rew > InitMaxRew
    /\ FilesHold(MaxFiles, 1)

\* ------------------------------------------------------ C3
\* C3: between iterations of rank 0 the four *_last files all hold the states
\* produced by the update of the latest completed iteration, and *_max files
\* written in that iteration hold the same states as the *_last files.
LastCheckpoint ==
    Boundary(0) =>
        /\ version[0] = iter[0]
        /\ LastFilesOk(iter[0])
        /\ \A i \in 1 .. 4 :
               files[MaxFiles[i]].ver = iter[0] =>
                   files[MaxFiles[i]] = files[LastFiles[i]]

LastCheckpointWitness ==
    /\ Boundary(0) /\ iter[0] = 2
    /\ FilesHold(MaxFiles, 1) /\ FilesHold(LastFiles, 2)

\* ------------------------------------------------------ C4
BudgetInv ==
    \A r \in Ranks :
        /\ pc[r] \in {"sample", "preprocess", "update"} =>
               total_epi[r] < max_episodes
        /\ pc[r] = "rewards" =>
               total_epi[r] - (IF aborted[r] THEN num_epi[r] ELSE 0) < max_episodes
        /\ pc[r] \in {"log", "ckpt_test", "save_max", "save_last"} =>
               total_epi[r] - num_epi[r] < max_episodes
        /\ pc[r] = "done" =>
               /\ total_epi[r] >= max_episodes
               /\ iter[r] > 0 => total_epi[r] - max_episodes < num_epi[r]
        /\ max_episodes <= 0 =>
               /\ iter[r] = 0
               /\ progress = <<>>
               /\ FilesAbsent(MaxFiles) /\ FilesAbsent(LastFiles)

BudgetStep ==
    \A r \in Ranks :
        total_epi'[r] =
            IF pc[r] = "rewards" /\ Running(r) /\ (pc'[r] = "log" \/ aborted'[r])
            THEN total_epi[r] + num_epi[r]
            ELSE total_epi[r]

\* rank r has left the loop, or one of its steps failed: it raised, or it
\* waits in the collective for a rank that is gone
Ended(r) == pc[r] = "done" \/ aborted[r] \/ BlockedInCollective(r)

KlInv ==
    \A r \in Ranks :
        /\ lastCall[r].rule \in {"none", ppo_type}
        /\ ppo_type = "clip" => kl_beta[r] = InitKlBeta

KlStep ==
    \A r \in Ranks :
        version'[r] # version[r] /\ ppo_type = "kl" =>
            lastCall'[r].beta_in =
                IF lastCall[r] = NoCall THEN InitKlBeta ELSE lastCall[r].beta_out

\* C5: every update of a run uses the rule --ppo_type names; with 'kl' the
\* first update gets init_kl_beta and each later one the new_kl_beta the
\* previous update returned; with 'clip' kl_beta stays init_kl_beta.
KlBetaChain == []KlInv /\ [][KlStep]_vars

KlBetaChainWitness ==
    /\ ppo_type = "kl" /\ version[0] = 2
    /\ lastCall[0].beta_in # InitKlBeta

\* ------------------------------------------------------ C6
\* C6: every rank writes args.json once, before it rescales its seed and
\* before it initializes the process group, so the file records the seed of
\* the command line, while numpy, torch, the environment and the sampler get
\* seed * (local_rank + 23).
ArgsFile ==
    \A r \in Ranks :
        /\ argsWrites[r] <= 1
        /\ pc[r] \notin {"check_log", "mkdir_log", "write_args"} =>
               argsWrites[r] = 1
        /\ argsWrites[r] = 0 => seed[r] = DefaultSeed /\ ~pgInit[r]
        /\ argsWrites[r] = 1 =>
               /\ argsJson.seed = DefaultSeed
               /\ argsJson.seed # DerivedSeed(DefaultSeed, r)
        /\ built[r] =>
               LET d == DerivedSeed(DefaultSeed, r)
               IN rng[r] = [np |-> d, torch |-> d, env |-> d, sampler |-> d]

ArgsFileWitness ==
    /\ pc[1] \in BodyPcs
    /\ argsWrites[1] = 1 /\ argsJson.seed = DefaultSeed
    /\ rng[1].sampler = DefaultSeed * (1 + SeedOffset)

\* ------------------------------------------------------ C7
AbortInv ==
    /\ aborted[0] /\ pc[0] \in {"sample", "preprocess", "update", "rewards"} =>
           /\ Len(progress) = iter[0] - 1
           /\ LastFilesOk(iter[0] - 1)
           /\ BestFilesOk
    /\ \A r \in Ranks :
           pc[r] \in {"log", "ckpt_test", "save_max", "save_last"} =>
               \A i \in 1 .. Len(paths[r]) : ~PathFails(paths[r][i])

AbortStep ==
    /\ \A r \in Ranks :
           aborted[r] =>
               /\ aborted'[r] /\ pc'[r] = pc[r] /\ iter'[r] = iter[r]
               /\ version'[r] = version[r] /\ paths'[r] = paths[r]
    /\ aborted[0] => files' = files /\ progress' = progress

\* C7: a step of iteration k that fails before the log step (a failing
\* sample, preprocess or update, or a path with fewer than two done flags)
\* ends the process: nothing is retried, no row and no checkpoint of
\* iteration k is written, and the files stay those of iteration k-1.
NoRecovery == []AbortInv /\ [][AbortStep]_vars

NoRecoveryWitness ==
    /\ aborted[0] /\ pc[0] = "rewards" /\ iter[0] = 2
    /\ \E i \in 1 .. 2 : PathFails(paths[0][i])
    /\ FilesHold(LastFiles, 1)

\* ------------------------------------------------------ C8
\* C8: no rank has left the loop while another rank is in a further
\* iteration, and no rank waits in the collective for a rank that has left.
SameIterations ==
    \A r, s \in Ranks :
        pc[r] = "done" /\ Running(s) /\ pc[s] \in BodyPcs =>
            /\ iter[s] <= iter[r]
            /\ ~(pc[s] = "update" /\ Joined(r) < iter[s])

\* ------------------------------------------------------ C9
StepPerIter == StepOf(<<PathA, PathA>>)

\* C9: only rank 0 writes progress rows and checkpoint files; the other
\* ranks still sample, preprocess, update and count in every iteration.
OnlyRankZeroWrites ==
    /\ ckptWriters \subseteq {0}
    /\ \A k \in Rows : progress[k].rank = 0
    /\ \A r \in Ranks \ {0} :
           Boundary(r) =>
               /\ version[r] = iter[r]
               /\ total_step[r] = iter[r] * StepPerIter
               /\ iter[r] > 0 => lastCall[r] # NoCall

OnlyRankZeroWritesWitness ==
    /\ pc[1] = "done" /\ iter[1] = 2 /\ total_epi[1] > 0
    /\ Len(progress) = 2 /\ ckptWriters = {0}

\* ------------------------------------------------------ C10
\* C10: no rank fails in the check-then-mkdir setup of the log directory and
\* of its models/ subdirectory.
SetupNeverFails ==
    \A r \in Ranks : ~(aborted[r] /\ pc[r] \in {"mkdir_log", "mkdir_models"})

====
